---------------------------- MODULE Spec2Model ----------------------------
(***************************************************************************)
(* Model of GraphConnectivityAnalyzer (src/src/graph_connectivity.py) and   *)
(* of the way GraphConnectivityInterface (src/src/main.py) replaces the     *)
(* analyzer's graph.                                                        *)
(*                                                                          *)
(* A graph is None or a record [nodes, edges, directed]: nodes is the       *)
(* sequence of vertices in insertion order (networkx keeps it, and          *)
(* minimum_node_cut slices it), edges the set of endpoint pairs, stored     *)
(* <<min, max>> for an undirected graph.                                    *)
(*                                                                          *)
(* The networkx routines the analyzer calls (is_connected,                  *)
(* is_complete_graph, node_connectivity, edge_connectivity,                 *)
(* minimum_node_cut, minimum_edge_cut) are modelled by what they compute    *)
(* on a simple graph, by exhaustive search over vertex sets; which of       *)
(* several minimum cuts the library returns is a fixed but arbitrary        *)
(* choice (CHOOSE).                                                         *)
(***************************************************************************)
EXTENDS Integers, Sequences, FiniteSets, TLC

VARIABLES graph, analysis_cache, connectivity_results, ret, changes

vars == <<graph, analysis_cache, connectivity_results, ret, changes>>

(***************************************************************************)
(* Bounds                                                                   *)
(***************************************************************************)
\* Edge lists handed to create_graph_from_edges: at most MaxEdges pairs of
\* vertices 1..MaxNodes.  Graphs read from a file: at most MaxFileNodes
\* vertices.  Graphs an analyzer is constructed on: at most MaxOrder vertices.
\* max_k arguments: -1..MaxK.  Graph replacements in one session: MaxChanges.
\* Lists of arbitrary pairs given to create_graph_from_edges: at most MaxPairs
\* pairs.
MaxNodes == 2
MaxEdges == 1
MaxFileNodes == 1
MaxOrder == 4
MaxK == 3
MaxChanges == 2
MaxPairs == 2

Nodes == 1..MaxNodes

\* Python's None, as a record so that it compares with a graph.
None == [none |-> TRUE]

(***************************************************************************)
(* Graph helpers (what the networkx Graph object answers)                   *)
(***************************************************************************)
NodeSet(g) == {g.nodes[i] : i \in DOMAIN g.nodes}

number_of_nodes(g) == Len(g.nodes)

number_of_edges(g) == Cardinality(g.edges)

\* Python truthiness of self.graph: None and the graph with no vertex are falsy.
Falsy(g) == g = None \/ Len(g.nodes) = 0

Adjacent(E, u, v) == <<u, v>> \in E \/ <<v, u>> \in E

\* Degree in a simple graph (a self-loop counts twice, as in networkx).
Degree(g, v) ==
    Cardinality({e \in g.edges : e[1] = v}) + Cardinality({e \in g.edges : e[2] = v})

MinDegree(g) ==
    CHOOSE d \in 0..(2 * Cardinality(g.edges)) :
        /\ \E v \in NodeSet(g) : Degree(g, v) = d
        /\ \A v \in NodeSet(g) : Degree(g, v) >= d

RECURSIVE ReachFrom(_, _, _)
ReachFrom(E, R, V) ==
    LET R2 == R \cup {v \in V : \E u \in R : Adjacent(E, u, v)}
    IN  IF R2 = R THEN R ELSE ReachFrom(E, R2, V)

\* The vertices V with the edges of E among them form a connected graph.
ConnectedOn(V, E) ==
    \/ V = {}
    \/ LET s == CHOOSE v \in V : TRUE IN ReachFrom(E, {s}, V) = V

\* Connectedness, completeness, vertex and edge connectivity and minimum cuts
\* of a simple undirected graph, by exhaustive search.
Connected(g) == ConnectedOn(NodeSet(g), g.edges)

Complete(g) ==
    \A u, v \in NodeSet(g) : u # v => Adjacent(g.edges, u, v)

\* Removing the vertex set S leaves at least two vertices that are not connected.
SeparatesNodes(g, S) == ~ConnectedOn(NodeSet(g) \ S, g.edges)

\* Removing the edge set C leaves the graph disconnected.
SeparatesEdges(g, C) == ~ConnectedOn(NodeSet(g), g.edges \ C)

\* The edges with exactly one endpoint in S.
Crossing(g, S) == {e \in g.edges : (e[1] \in S) # (e[2] \in S)}

Sides(g) == {S \in SUBSET NodeSet(g) : S # {} /\ S # NodeSet(g)}

Min(S) == CHOOSE x \in S : \A y \in S : x <= y

\* The vertex sets whose removal disconnects g.
NodeCuts(g) == {S \in SUBSET NodeSet(g) : SeparatesNodes(g, S)}

Kappa(g) ==
    LET cuts == NodeCuts(g)
    IN  IF cuts = {} THEN number_of_nodes(g) - 1
        ELSE Min({Cardinality(S) : S \in cuts})

Lambda(g) ==
    LET sides == Sides(g)
    IN  IF sides = {} THEN 0
        ELSE Min({Cardinality(Crossing(g, S)) : S \in sides})

MinNodeCut(g) ==
    LET cuts == NodeCuts(g)
    IN  IF cuts = {}
        THEN LET v == CHOOSE x \in NodeSet(g) : Degree(g, x) = MinDegree(g)
             IN  {w \in NodeSet(g) : w # v /\ Adjacent(g.edges, v, w)}
        ELSE LET k == Min({Cardinality(S) : S \in cuts})
             IN  CHOOSE S \in cuts : Cardinality(S) = k

MinEdgeCut(g) ==
    LET sides == Sides(g)
    IN  IF sides = {} THEN {}
        ELSE LET k == Min({Cardinality(Crossing(g, S)) : S \in sides})
             IN  Crossing(g, CHOOSE S \in sides : Cardinality(Crossing(g, S)) = k)

(***************************************************************************)
(* Building graphs                                                          *)
(***************************************************************************)
EmptyGraph(directed) == [nodes |-> <<>>, edges |-> {}, directed |-> directed]

add_node(g, u) ==
    IF u \in NodeSet(g) THEN g ELSE [g EXCEPT !.nodes = Append(@, u)]

add_edge(g, u, v) ==
    LET g1 == add_node(add_node(g, u), v)
        e  == IF g.directed \/ u <= v THEN <<u, v>> ELSE <<v, u>>
    IN  [g1 EXCEPT !.edges = @ \cup {e}]

\* Graph.add_edges_from: the tuples are added one by one; a tuple that is not
\* a pair makes it raise, with the tuples before it already added.
RECURSIVE add_edges_from(_, _)
add_edges_from(g, edges) ==
    IF edges = <<>> THEN [graph |-> g, raised |-> FALSE]
    ELSE LET t == Head(edges)
         IN  IF Len(t) # 2 THEN [graph |-> g, raised |-> TRUE]
             ELSE add_edges_from(add_edge(g, t[1], t[2]), Tail(edges))

\* The graphs create_graph_from_edges builds from a list of pairs.
Built(edges, directed) == add_edges_from(EmptyGraph(directed), edges).graph

\* An undirected graph with the given vertex order and edges.
GraphOf(nodes, edges) == [nodes |-> nodes, edges |-> edges, directed |-> FALSE]

(***************************************************************************)
(* Inputs                                                                   *)
(***************************************************************************)
\* The pairs a caller lists for a simple graph on Nodes.
SimpleTuples == {t \in Nodes \X Nodes : t[1] < t[2]}

\* A tuple add_edges_from rejects.
BadTuple == <<1>>

Before(s, t) == s[1] < t[1] \/ (s[1] = t[1] /\ s[2] < t[2])

\* Edge lists: at most MaxEdges distinct pairs, listed in increasing order.
EdgeLists ==
    {l \in UNION {[1..k -> SimpleTuples] : k \in 0..MaxEdges} :
        \A i \in 1..(Len(l) - 1) : Before(l[i], l[i + 1])}

(***************************************************************************)
(* The example graphs of the interface                                      *)
(***************************************************************************)
Range(a, b) == [i \in 1..(b - a + 1) |-> a + i - 1]

example_graphs ==
    [K4 |-> GraphOf(Range(0, 3), {<<u, v>> \in (0..3) \X (0..3) : u < v}),
     C5 |-> GraphOf(Range(0, 4), {<<0, 1>>, <<1, 2>>, <<2, 3>>, <<3, 4>>, <<0, 4>>}),
     star |-> GraphOf(Range(0, 5), {<<0, v>> : v \in 1..5}),
     petersen |-> GraphOf(Range(0, 9),
                  {<<0, 1>>, <<1, 2>>, <<2, 3>>, <<3, 4>>, <<0, 4>>,
                   <<0, 5>>, <<1, 6>>, <<2, 7>>, <<3, 8>>, <<4, 9>>,
                   <<5, 7>>, <<7, 9>>, <<6, 9>>, <<6, 8>>, <<5, 8>>}),
     bridge |-> GraphOf(Range(0, 8),
                  {<<0, 1>>, <<1, 2>>, <<2, 3>>, <<3, 4>>, <<1, 4>>,
                   <<2, 5>>, <<5, 6>>, <<6, 7>>, <<7, 8>>, <<5, 8>>}),
     disconnected |-> GraphOf(Range(0, 5),
                  {<<0, 1>>, <<1, 2>>, <<0, 2>>, <<3, 4>>, <<4, 5>>})]

\* The graphs a readable file holds: any simple undirected graph on the
\* vertices 1..n, isolated vertices included (an adjacency list names them).
FileGraphs ==
    UNION {{GraphOf(Range(1, n), E) :
                E \in SUBSET {t \in (1..n) \X (1..n) : t[1] < t[2]}} :
           n \in 0..MaxFileNodes}

\* The graphs an analyzer is constructed on: every simple undirected graph
\* with at most MaxOrder vertices, its vertices named 1..n by non-increasing
\* degree (one naming or more of each graph).
GivenGraphs ==
    UNION {{g \in {GraphOf(Range(1, n), E) :
                     E \in SUBSET {t \in (1..n) \X (1..n) : t[1] < t[2]}} :
                \A v \in 1..(n - 1) : Degree(g, v) >= Degree(g, v + 1)} :
           n \in 0..MaxOrder}

\* The argument lists of k_connectivity_analysis: none, or max_k, which may
\* be below 1 or above the vertex count.
KArgs == {<<>>} \cup {<<k>> : k \in (-1)..MaxK}

(***************************************************************************)
(* networkx: the routines the analyzer calls                                *)
(***************************************************************************)
\* Every graph an analyzer can hold.
Graphs ==
    {Built(l, d) : l \in EdgeLists, d \in BOOLEAN}
        \cup FileGraphs \cup GivenGraphs
        \cup {example_graphs[name] : name \in DOMAIN example_graphs}

\* What the routines answer for each undirected graph, computed once.
nx ==
    [g \in {h \in Graphs : ~h.directed} |->
        [is_connected |-> Connected(g),
         is_complete_graph |-> Complete(g),
         node_connectivity |-> Kappa(g),
         edge_connectivity |-> Lambda(g),
         minimum_node_cut |-> MinNodeCut(g),
         minimum_edge_cut |-> MinEdgeCut(g)]] @@ <<>>

\* nx.is_connected raises on a directed graph and on the graph with no vertex.
IsConnectedRaises(g) == g.directed \/ Len(g.nodes) = 0

is_connected(g) == nx[g].is_connected

is_complete_graph(g) == nx[g].is_complete_graph

nx_node_connectivity(g) == nx[g].node_connectivity

nx_edge_connectivity(g) == nx[g].edge_connectivity

nx_minimum_node_cut(g) == nx[g].minimum_node_cut

nx_minimum_edge_cut(g) == nx[g].minimum_edge_cut

(***************************************************************************)
(* GraphConnectivityAnalyzer: the methods as functions of the state         *)
(***************************************************************************)
\* A dict with no key: the initial analysis_cache and connectivity_results.
EmptyDict == [k \in {} |-> 0]

\* Python truthiness of a dict.
IsEmpty(d) == DOMAIN d = {}

Put(cache, key, value) == [k \in DOMAIN cache \cup {key} |->
                              IF k = key THEN value ELSE cache[k]]

\* What a call gives back: the value returned, or the exception raised.
Returned(v) == [raised |-> "", val |-> v]
Raised(e) == [raised |-> e, val |-> None]

\* The computed connectivity is stored under its key and returned.
Memoized(cache, key, connectivity) ==
    [val |-> connectivity, cache |-> Put(cache, key, connectivity)]

\* Mutant of node_connectivity: the cache test copied from
\* edge_connectivity reads the other metric's entry.
node_connectivity_other_key(g, cache) ==
    IF Falsy(g) THEN [val |-> 0, cache |-> cache]
    ELSE IF "node_connectivity" \in DOMAIN cache
    THEN [val |-> IF "edge_connectivity" \in DOMAIN cache
                  THEN cache["edge_connectivity"] ELSE 0,
          cache |-> cache]
    ELSE IF number_of_nodes(g) > 1 /\ IsConnectedRaises(g)
    THEN [val |-> 0, cache |-> cache]
    ELSE Memoized(cache, "node_connectivity",
                  IF number_of_nodes(g) <= 1 THEN 0
                  ELSE IF ~is_connected(g) THEN 0
                  ELSE IF is_complete_graph(g) THEN number_of_nodes(g) - 1
                  ELSE nx_node_connectivity(g))

\* Mutant of node_connectivity: the 0 returned when the computation raises
\* is memoized too.
node_connectivity_caches_failure(g, cache) ==
    IF Falsy(g) THEN [val |-> 0, cache |-> cache]
    ELSE IF "node_connectivity" \in DOMAIN cache
    THEN [val |-> cache["node_connectivity"], cache |-> cache]
    ELSE IF number_of_nodes(g) > 1 /\ IsConnectedRaises(g)
    THEN Memoized(cache, "node_connectivity", 0)
    ELSE Memoized(cache, "node_connectivity",
                  IF number_of_nodes(g) <= 1 THEN 0
                  ELSE IF ~is_connected(g) THEN 0
                  ELSE IF is_complete_graph(g) THEN number_of_nodes(g) - 1
                  ELSE nx_node_connectivity(g))

\* node_connectivity(): the value returned and the cache left behind.
node_connectivity(g, cache) ==
    IF Falsy(g) THEN [val |-> 0, cache |-> cache]
    ELSE IF "node_connectivity" \in DOMAIN cache
    THEN [val |-> cache["node_connectivity"], cache |-> cache]
    ELSE IF number_of_nodes(g) > 1 /\ IsConnectedRaises(g)
    THEN [val |-> 0, cache |-> cache]
    ELSE Memoized(cache, "node_connectivity",
                  IF number_of_nodes(g) <= 1 THEN 0
                  ELSE IF ~is_connected(g) THEN 0
                  ELSE IF is_complete_graph(g) THEN number_of_nodes(g) - 1
                  ELSE nx_node_connectivity(g))

\* edge_connectivity(): the value returned and the cache left behind.
edge_connectivity(g, cache) ==
    IF Falsy(g) THEN [val |-> 0, cache |-> cache]
    ELSE IF "edge_connectivity" \in DOMAIN cache
    THEN [val |-> cache["edge_connectivity"], cache |-> cache]
    ELSE IF number_of_nodes(g) > 1 /\ IsConnectedRaises(g)
    THEN [val |-> 0, cache |-> cache]
    ELSE Memoized(cache, "edge_connectivity",
                  IF number_of_nodes(g) <= 1 THEN 0
                  ELSE IF ~is_connected(g) THEN 0
                  ELSE nx_edge_connectivity(g))

\* Mutant of minimum_node_cut: the complete case returns the positions
\* range(n - 1) instead of the vertices at them.
minimum_node_cut_positions(g) ==
    IF Falsy(g) THEN Returned({})
    ELSE IF IsConnectedRaises(g) THEN Raised("NetworkXNotImplemented")
    ELSE IF ~is_connected(g) THEN Returned({})
    ELSE IF is_complete_graph(g)
    THEN Returned({i - 1 : i \in 1..(Len(g.nodes) - 1)})
    ELSE Returned(nx_minimum_node_cut(g))

\* Mutant of minimum_node_cut: the slice of the complete case drops two
\* vertices instead of one.
minimum_node_cut_short(g) ==
    IF Falsy(g) THEN Returned({})
    ELSE IF IsConnectedRaises(g) THEN Raised("NetworkXNotImplemented")
    ELSE IF ~is_connected(g) THEN Returned({})
    ELSE IF is_complete_graph(g)
    THEN Returned({g.nodes[i] : i \in 1..(Len(g.nodes) - 2)})
    ELSE Returned(nx_minimum_node_cut(g))

\* minimum_node_cut(): is_connected is called outside the try.
minimum_node_cut(g) ==
    IF Falsy(g) THEN Returned({})
    ELSE IF IsConnectedRaises(g) THEN Raised("NetworkXNotImplemented")
    ELSE IF ~is_connected(g) THEN Returned({})
    ELSE IF is_complete_graph(g)
    THEN Returned({g.nodes[i] : i \in 1..(Len(g.nodes) - 1)})
    ELSE Returned(nx_minimum_node_cut(g))

\* Mutant of minimum_edge_cut: a complete graph is answered with all its
\* edges.
minimum_edge_cut_all_edges(g) ==
    IF Falsy(g) THEN Returned({})
    ELSE IF IsConnectedRaises(g) THEN Raised("NetworkXNotImplemented")
    ELSE IF ~is_connected(g) THEN Returned({})
    ELSE IF is_complete_graph(g) THEN Returned(g.edges)
    ELSE Returned(nx_minimum_edge_cut(g))

\* minimum_edge_cut(): is_connected is called outside the try.
minimum_edge_cut(g) ==
    IF Falsy(g) THEN Returned({})
    ELSE IF IsConnectedRaises(g) THEN Raised("NetworkXNotImplemented")
    ELSE IF ~is_connected(g) THEN Returned({})
    ELSE Returned(nx_minimum_edge_cut(g))

\* Mutant of k_analysis: the loop runs over range(1, n_nodes) whatever max_k.
k_analysis_any_max_k(max_k, n_nodes, node_conn, edge_conn) ==
    [k \in 1..(n_nodes - 1) |->
        [k_node_connected |-> k <= node_conn,
         k_edge_connected |-> k <= edge_conn]]

\* Mutant of k_analysis: the two tests are strict.
k_analysis_strict(max_k, n_nodes, node_conn, edge_conn) ==
    LET stop == IF max_k + 1 < n_nodes THEN max_k + 1 ELSE n_nodes
    IN  [k \in 1..(stop - 1) |->
            [k_node_connected |-> k < node_conn,
             k_edge_connected |-> k < edge_conn]]

\* The table k_analysis for k in range(1, min(max_k + 1, n_nodes)).
k_analysis(max_k, n_nodes, node_conn, edge_conn) ==
    LET stop == IF max_k + 1 < n_nodes THEN max_k + 1 ELSE n_nodes
    IN  [k \in 1..(stop - 1) |->
            [k_node_connected |-> k <= node_conn,
             k_edge_connected |-> k <= edge_conn]]

\* The dict k_connectivity_analysis builds, from the two connectivities. The
\* two cuts are stored as lists of the sets' elements, in no defined order:
\* here, as the sets.
Report(g, max_k, node_conn, edge_conn) ==
    [basic_info |->
         [nodes |-> number_of_nodes(g),
          edges |-> number_of_edges(g),
          is_connected |-> is_connected(g),
          is_directed |-> g.directed],
     connectivity |->
         [node_connectivity |-> node_conn,
          edge_connectivity |-> edge_conn],
     cuts |->
         [minimum_node_cut |-> minimum_node_cut(g).val,
          minimum_edge_cut |-> minimum_edge_cut(g).val],
     k_analysis |-> k_analysis(max_k, number_of_nodes(g), node_conn, edge_conn)]

\* The report is stored in connectivity_results and returned.
Stored(report, cache) ==
    [out |-> Returned(report), cache |-> cache, results |-> report]

\* The rest of k_connectivity_analysis once node_connectivity() has answered
\* nc: edge_connectivity() runs on the cache it left.
Analysed(g, max_k, nc, ec) == Stored(Report(g, max_k, nc.val, ec.val), ec.cache)

AnalysedFrom(g, max_k, nc) ==
    Analysed(g, max_k, nc, edge_connectivity(g, nc.cache))

\* k_connectivity_analysis(max_k), args = <<>> or <<max_k>>: the report
\* returned (or the exception), the cache and the stored report left behind.
k_connectivity_analysis(g, cache, results, args) ==
    IF Falsy(g)
    THEN [out |-> Returned(EmptyDict), cache |-> cache, results |-> results]
    ELSE IF IsConnectedRaises(g)
    THEN [out |-> Raised("NetworkXNotImplemented"),
          cache |-> cache, results |-> results]
    ELSE AnalysedFrom(g, IF args = <<>> THEN number_of_nodes(g) ELSE args[1],
                      node_connectivity(g, cache))

\* The summary read from the report run left in connectivity_results, or the
\* KeyError of reading it from an empty one.
Summary(run) ==
    IF run.out.raised # "" THEN run
    ELSE IF IsEmpty(run.results)
    THEN [run EXCEPT !.out = Raised("KeyError")]
    ELSE [run EXCEPT !.out = Returned(run.results)]

\* get_summary(): k_connectivity_analysis() runs first when
\* connectivity_results is empty.
get_summary(g, cache, results) ==
    Summary(IF IsEmpty(results)
            THEN k_connectivity_analysis(g, cache, results, <<>>)
            ELSE [out |-> Returned(results), cache |-> cache,
                  results |-> results])

\* What export_results returns, and the report it has written to the file
\* (None when nothing was written).
Export(ok, written) == Returned([ok |-> ok, written |-> written])

\* The 'txt' export writes what get_summary() gives; its exception is caught
\* and False returned.
Exported(run) ==
    [run EXCEPT !.out = IF run.out.raised # "" THEN Export(FALSE, None)
                        ELSE Export(TRUE, run.out.val)]

\* export_results(filepath, format_type): 'json' dumps connectivity_results
\* as it is, 'txt' writes get_summary(), any other format fails.
export_results(g, cache, results, format_type) ==
    IF format_type = "json"
    THEN [out |-> Export(TRUE, results), cache |-> cache, results |-> results]
    ELSE IF format_type = "txt"
    THEN Exported(get_summary(g, cache, results))
    ELSE [out |-> Export(FALSE, None), cache |-> cache, results |-> results]

\* The formats asked of export_results: the two it knows and another.
Formats == {"json", "txt", "xml"}

\* create_graph_from_edges(edges, directed): the new graph is assigned first,
\* so a failing add_edges_from leaves the partly built graph behind.
create_graph_from_edges(edges, directed) ==
    LET r == add_edges_from(EmptyGraph(directed), edges)
    IN  [graph |-> r.graph, val |-> ~r.raised]

(***************************************************************************)
(* The state machine                                                        *)
(***************************************************************************)
Call(op, args, out, again) ==
    [op |-> op, args |-> args, raised |-> out.raised, val |-> out.val,
     again |-> again]

\* The call repeats the one before it.
Again(op, args) == ret.op = op /\ ret.args = args

Init ==
    /\ graph = None
    /\ analysis_cache = EmptyDict
    /\ connectivity_results = EmptyDict
    /\ ret = Call("__init__", <<>>, Returned(None), FALSE)
    /\ changes = 0

CreateGraphFromEdges ==
    /\ changes < MaxChanges
    /\ \E edges \in EdgeLists, directed \in BOOLEAN, bad \in BOOLEAN :
          LET r == create_graph_from_edges(
                       IF bad THEN Append(edges, BadTuple) ELSE edges, directed)
          IN  /\ graph' = r.graph
              /\ ret' = Call("create_graph_from_edges", <<>>, Returned(r.val), FALSE)
    /\ changes' = changes + 1
    /\ UNCHANGED <<analysis_cache, connectivity_results>>

LoadGraphFromFile ==
    /\ changes < MaxChanges
    /\ \/ \E g \in FileGraphs :
             /\ graph' = g
             /\ ret' = Call("load_graph_from_file", <<>>, Returned(TRUE), FALSE)
       \/ /\ graph' = graph
          /\ ret' = Call("load_graph_from_file", <<>>, Returned(FALSE), FALSE)
    /\ changes' = changes + 1
    /\ UNCHANGED <<analysis_cache, connectivity_results>>

UseExampleGraph ==
    /\ changes < MaxChanges
    /\ \E name \in DOMAIN example_graphs :
          /\ graph' = example_graphs[name]
          /\ ret' = Call("use_example_graph", <<>>, Returned(TRUE), FALSE)
    /\ changes' = changes + 1
    /\ UNCHANGED <<analysis_cache, connectivity_results>>

NodeConnectivity ==
    LET r == node_connectivity(graph, analysis_cache)
    IN  /\ analysis_cache' = r.cache
        /\ ret' = Call("node_connectivity", <<>>, Returned(r.val),
                       Again("node_connectivity", <<>>))
        /\ UNCHANGED <<graph, connectivity_results, changes>>

EdgeConnectivity ==
    LET r == edge_connectivity(graph, analysis_cache)
    IN  /\ analysis_cache' = r.cache
        /\ ret' = Call("edge_connectivity", <<>>, Returned(r.val),
                       Again("edge_connectivity", <<>>))
        /\ UNCHANGED <<graph, connectivity_results, changes>>

MinimumNodeCut ==
    /\ ret' = Call("minimum_node_cut", <<>>, minimum_node_cut(graph),
                   Again("minimum_node_cut", <<>>))
    /\ UNCHANGED <<graph, analysis_cache, connectivity_results, changes>>

MinimumEdgeCut ==
    /\ ret' = Call("minimum_edge_cut", <<>>, minimum_edge_cut(graph),
                   Again("minimum_edge_cut", <<>>))
    /\ UNCHANGED <<graph, analysis_cache, connectivity_results, changes>>

KConnectivityAnalysis ==
    \E args \in KArgs :
        LET r == k_connectivity_analysis(graph, analysis_cache,
                                         connectivity_results, args)
        IN  /\ analysis_cache' = r.cache
            /\ connectivity_results' = r.results
            /\ ret' = Call("k_connectivity_analysis", args, r.out,
                           Again("k_connectivity_analysis", args))
            /\ UNCHANGED <<graph, changes>>

GetSummary ==
    LET r == get_summary(graph, analysis_cache, connectivity_results)
    IN  /\ analysis_cache' = r.cache
        /\ connectivity_results' = r.results
        /\ ret' = Call("get_summary", <<>>, r.out, Again("get_summary", <<>>))
        /\ UNCHANGED <<graph, changes>>

ExportResults ==
    \E format_type \in Formats :
        LET r == export_results(graph, analysis_cache, connectivity_results,
                                format_type)
        IN  /\ analysis_cache' = r.cache
            /\ connectivity_results' = r.results
            /\ ret' = Call("export_results", <<format_type>>, r.out,
                           Again("export_results", <<format_type>>))
            /\ UNCHANGED <<graph, changes>>

Next ==
    \/ CreateGraphFromEdges
    \/ LoadGraphFromFile
    \/ UseExampleGraph
    \/ NodeConnectivity
    \/ EdgeConnectivity
    \/ MinimumNodeCut
    \/ MinimumEdgeCut
    \/ KConnectivityAnalysis
    \/ GetSummary
    \/ ExportResults

Spec == Init /\ [][Next]_vars

(***************************************************************************)
(* An analyzer constructed on a graph (GraphConnectivityAnalyzer(graph))    *)
(* and queried, the graph never replaced.                                   *)
(***************************************************************************)
InitGiven ==
    /\ graph \in GivenGraphs
    /\ analysis_cache = EmptyDict
    /\ connectivity_results = EmptyDict
    /\ ret = Call("__init__", <<>>, Returned(None), FALSE)
    /\ changes = 0

NextGiven ==
    \/ NodeConnectivity
    \/ EdgeConnectivity
    \/ MinimumNodeCut
    \/ MinimumEdgeCut
    \/ KConnectivityAnalysis
    \/ GetSummary
    \/ ExportResults

SpecGiven == InitGiven /\ [][NextGiven]_vars

(***************************************************************************)
(* create_graph_from_edges on any list of pairs over the vertices: pairs    *)
(* (u, u), pairs in both orders and repeated pairs included.                *)
(***************************************************************************)
RECURSIVE ListsOf(_, _)
ListsOf(S, n) ==
    IF n = 0 THEN {<<>>}
    ELSE ListsOf(S, n - 1)
            \cup {Append(l, x) : l \in {m \in ListsOf(S, n - 1) : Len(m) = n - 1},
                                 x \in S}

PairLists == ListsOf(Nodes \X Nodes, MaxPairs)

CreateGraphFromPairs ==
    /\ changes < MaxChanges
    /\ \E edges \in PairLists, directed \in BOOLEAN, bad \in BOOLEAN :
          LET r == create_graph_from_edges(
                       IF bad THEN Append(edges, BadTuple) ELSE edges, directed)
          IN  /\ graph' = r.graph
              /\ ret' = Call("create_graph_from_edges",
                             <<IF bad THEN Append(edges, BadTuple) ELSE edges,
                               directed>>,
                             Returned(r.val), FALSE)
    /\ changes' = changes + 1
    /\ UNCHANGED <<analysis_cache, connectivity_results>>

NextCreate == CreateGraphFromPairs

SpecCreate == Init /\ [][NextCreate]_vars

(***************************************************************************)
(* The interactive interface (GraphConnectivityInterface) over its          *)
(* analyzer.  Its two fields are functions of the analyzer's state:         *)
(* current_graph is assigned self.analyzer.graph wherever the analyzer's    *)
(* graph is replaced, and current_results is assigned the dict              *)
(* k_connectivity_analysis has just stored in connectivity_results; no      *)
(* other statement assigns either of them.                                  *)
(***************************************************************************)
current_graph == graph

current_results ==
    IF IsEmpty(connectivity_results) THEN None ELSE connectivity_results

\* What the visualizer is handed, or nothing drawn; calls lists the methods
\* of the analyzer the interface has invoked on the way, in order.
Drawn(g, results, calls) ==
    Returned([drawn |-> TRUE, graph |-> g, results |-> results, calls |-> calls])

NotDrawn(calls) == Returned([drawn |-> FALSE, calls |-> calls])

\* What analyze_connectivity() returns, and the analyzer methods it invoked.
AnalyzeResult(ok, calls) == Returned([ok |-> ok, calls |-> calls])

\* analyze_connectivity() once the analysis has run: its exception is caught
\* and False returned; a report is kept as current_results, get_summary()
\* printed and True returned.
Analyzed(run) ==
    [run EXCEPT !.out =
        IF run.out.raised = "" /\ ~IsEmpty(run.out.val)
        THEN AnalyzeResult(TRUE, <<"k_connectivity_analysis", "get_summary">>)
        ELSE AnalyzeResult(FALSE, <<"k_connectivity_analysis">>)]

\* Mutant of analyze_connectivity: the test of current_graph is missing.
analyze_connectivity_any_graph(g, cache, results, args) ==
    Analyzed(k_connectivity_analysis(
                 g, cache, results,
                 IF args # <<>> THEN args
                 ELSE IF g = None THEN <<0>> ELSE <<number_of_nodes(g)>>))

\* analyze_connectivity(), args = <<>> (nothing typed) or <<max_k>>.
analyze_connectivity(g, cache, results, args) ==
    IF Falsy(g)
    THEN [out |-> AnalyzeResult(FALSE, <<>>), cache |-> cache,
          results |-> results]
    ELSE Analyzed(k_connectivity_analysis(
                      g, cache, results,
                      IF args = <<>> THEN <<number_of_nodes(g)>> ELSE args))

\* The analysis a visualization runs first when there are no results yet.
WithResults(g, cache, results, args) ==
    IF Falsy(g) \/ ~IsEmpty(results)
    THEN [out |-> AnalyzeResult(~Falsy(g), <<>>), cache |-> cache,
          results |-> results]
    ELSE analyze_connectivity(g, cache, results, args)

\* visualize_connectivity() and visualize_k_comparison(): the visualizer is
\* called with (current_graph, current_results) unless there is no graph or
\* the analysis fails.
Visualized(g, run) ==
    [run EXCEPT !.out = IF run.out.val.ok
                        THEN Drawn(g, run.results, run.out.val.calls)
                        ELSE NotDrawn(run.out.val.calls)]

visualize_connectivity(g, cache, results, args) ==
    Visualized(g, WithResults(g, cache, results, args))

\* The analyzer methods an export in format_type invokes: the 'txt' export
\* calls get_summary(), which analyzes first when nothing is stored.
ExportCalls(results, format_type) ==
    <<"export_results">>
        \o (IF format_type = "txt" THEN <<"get_summary">> ELSE <<>>)
        \o (IF format_type = "txt" /\ IsEmpty(results)
            THEN <<"k_connectivity_analysis">> ELSE <<>>)

\* The analyzer's export_results as invoked by the interface.
Invoked(run, calls) ==
    [run EXCEPT !.out = Returned([ok |-> run.out.val.ok,
                                  written |-> run.out.val.written,
                                  calls |-> calls])]

\* Mutant of interface_export_results: the test of current_results is
\* missing.
interface_export_results_any_time(g, cache, results, format_type) ==
    Invoked(export_results(g, cache, results, format_type),
            ExportCalls(results, format_type))

\* The interface's export_results(): nothing without results, else the
\* analyzer's export in the format chosen.
interface_export_results(g, cache, results, format_type) ==
    IF IsEmpty(results)
    THEN [out |-> Returned([ok |-> FALSE, written |-> None, calls |-> <<>>]),
          cache |-> cache, results |-> results]
    ELSE Invoked(export_results(g, cache, results, format_type),
                 ExportCalls(results, format_type))

CreateGraphManually ==
    /\ changes < MaxChanges
    /\ \E edges \in EdgeLists \ {<<>>}, directed \in BOOLEAN :
          /\ graph' = create_graph_from_edges(edges, directed).graph
          /\ ret' = Call("create_graph_manually", <<>>, Returned(TRUE), FALSE)
    /\ changes' = changes + 1
    /\ UNCHANGED <<analysis_cache, connectivity_results>>

AnalyzeConnectivity ==
    \E args \in KArgs :
        LET r == analyze_connectivity(graph, analysis_cache,
                                      connectivity_results, args)
        IN  /\ analysis_cache' = r.cache
            /\ connectivity_results' = r.results
            /\ ret' = Call("analyze_connectivity", args, r.out,
                           Again("analyze_connectivity", args))
            /\ UNCHANGED <<graph, changes>>

VisualizeConnectivity ==
    \E args \in KArgs :
        LET r == visualize_connectivity(graph, analysis_cache,
                                        connectivity_results, args)
        IN  /\ analysis_cache' = r.cache
            /\ connectivity_results' = r.results
            /\ ret' = Call("visualize_connectivity", args, r.out,
                           Again("visualize_connectivity", args))
            /\ UNCHANGED <<graph, changes>>

VisualizeKComparison ==
    \E args \in KArgs :
        LET r == visualize_connectivity(graph, analysis_cache,
                                        connectivity_results, args)
        IN  /\ analysis_cache' = r.cache
            /\ connectivity_results' = r.results
            /\ ret' = Call("visualize_k_comparison", args, r.out,
                           Again("visualize_k_comparison", args))
            /\ UNCHANGED <<graph, changes>>

InterfaceExportResults ==
    \E format_type \in {"json", "txt"} :
        LET r == interface_export_results(graph, analysis_cache,
                                          connectivity_results, format_type)
        IN  /\ analysis_cache' = r.cache
            /\ connectivity_results' = r.results
            /\ ret' = Call("interface.export_results", <<format_type>>, r.out,
                           Again("interface.export_results", <<format_type>>))
            /\ UNCHANGED <<graph, changes>>

NextInterface ==
    \/ LoadGraphFromFile
    \/ CreateGraphManually
    \/ UseExampleGraph
    \/ AnalyzeConnectivity
    \/ VisualizeConnectivity
    \/ VisualizeKComparison
    \/ InterfaceExportResults

SpecInterface == Init /\ [][NextInterface]_vars

(***************************************************************************)
(* Properties                                                               *)
(***************************************************************************)
\* The analyzer holds a simple undirected graph.
Undirected == graph # None /\ ~graph.directed

\* The analyzer holds a connected undirected graph with at least 2 vertices.
ConnectedGraph ==
    Undirected /\ number_of_nodes(graph) >= 2 /\ Connected(graph)

\* The last call was op and it returned (did not raise).
Gave(op) == ret.op = op /\ ret.raised = ""

\* What an analyzer with an empty cache answers for the graph held now.
FreshNodeConnectivity == node_connectivity(graph, EmptyDict).val
FreshEdgeConnectivity == edge_connectivity(graph, EmptyDict).val

\* C1: node_connectivity() and edge_connectivity() return the connectivity of
\* the graph the analyzer holds now, never a value memoized for an earlier
\* graph: every change of the graph invalidates the cache.
C1_CurrentGraph ==
    /\ ret.op = "node_connectivity" => ret.val = FreshNodeConnectivity
    /\ ret.op = "edge_connectivity" => ret.val = FreshEdgeConnectivity

\* C2: a call of node_connectivity(), of edge_connectivity() or of
\* k_connectivity_analysis(max_k) that repeats the call before it, the graph
\* not changed in between, gives the same result as that call.
C2_Idempotent ==
    [][(/\ ret'.again
        /\ ret'.op \in {"node_connectivity", "edge_connectivity",
                        "k_connectivity_analysis"})
          => /\ ret'.raised = ret.raised
             /\ ret.raised = "" => ret'.val = ret.val]_vars

\* C2's case: k_connectivity_analysis was called twice in a row on a
\* connected graph and returned a report.
C2_Witness ==
    /\ ret.again
    /\ Gave("k_connectivity_analysis")
    /\ ConnectedGraph
    /\ ~IsEmpty(ret.val)
    /\ ret.val.connectivity.node_connectivity >= 2

\* C3: on a simple connected undirected graph with at least 2 vertices the
\* reported values satisfy node_connectivity <= edge_connectivity <= minimum
\* degree of the graph held.
C3_Whitney ==
    (ConnectedGraph /\ Gave("k_connectivity_analysis"))
        => /\ ret.val.connectivity.node_connectivity
                <= ret.val.connectivity.edge_connectivity
           /\ ret.val.connectivity.edge_connectivity <= MinDegree(graph)

\* The analyzer holds a graph with at least 2 vertices that is not connected
\* (edge directions ignored).
NotConnectedGraph ==
    /\ graph # None
    /\ number_of_nodes(graph) >= 2
    /\ ~ConnectedOn(NodeSet(graph), graph.edges)

\* C4: when the graph held is not connected, node_connectivity() and
\* edge_connectivity() return 0 and minimum_node_cut() and minimum_edge_cut()
\* return the empty set, without raising.
C4_Disconnected ==
    NotConnectedGraph
        => /\ ret.op \in {"node_connectivity", "edge_connectivity"}
                => ret.raised = "" /\ ret.val = 0
           /\ ret.op \in {"minimum_node_cut", "minimum_edge_cut"}
                => ret.raised = "" /\ ret.val = {}

\* C5: with no graph, a graph with no vertex or a graph with one vertex,
\* node_connectivity() and edge_connectivity() return 0 and
\* minimum_node_cut() and minimum_edge_cut() return the empty set, without
\* raising.
C5_Trivial ==
    (graph = None \/ number_of_nodes(graph) <= 1)
        => /\ ret.op \in {"node_connectivity", "edge_connectivity"}
                => ret.raised = "" /\ ret.val = 0
           /\ ret.op \in {"minimum_node_cut", "minimum_edge_cut"}
                => ret.raised = "" /\ ret.val = {}

\* C6: with no graph or an empty graph, k_connectivity_analysis() and
\* get_summary() complete without raising and yield the default values:
\* node connectivity 0, edge connectivity 0, empty node cut, empty edge cut.
C6_Defaults ==
    (Falsy(graph) /\ ret.op \in {"k_connectivity_analysis", "get_summary"})
        => /\ ret.raised = ""
           /\ ~IsEmpty(ret.val)
           /\ ret.val.connectivity.node_connectivity = 0
           /\ ret.val.connectivity.edge_connectivity = 0
           /\ ret.val.cuts.minimum_node_cut = {}
           /\ ret.val.cuts.minimum_edge_cut = {}

\* The analyzer holds a complete undirected graph.
CompleteGraph == Undirected /\ Complete(graph)

\* C7: on a complete undirected graph with n >= 2 vertices node_connectivity()
\* and edge_connectivity() return n - 1 and minimum_node_cut() returns n - 1
\* vertices of the graph.
C7_Complete ==
    (CompleteGraph /\ number_of_nodes(graph) >= 2)
        => /\ ret.op \in {"node_connectivity", "edge_connectivity"}
                => ret.raised = "" /\ ret.val = number_of_nodes(graph) - 1
           /\ ret.op = "minimum_node_cut"
                => /\ ret.raised = ""
                   /\ ret.val \subseteq NodeSet(graph)
                   /\ Cardinality(ret.val) = number_of_nodes(graph) - 1

\* C8 as stated: on a complete undirected graph with n vertices
\* minimum_edge_cut() returns a set of n(n-1)/2 edges.
C8_AllEdges ==
    (CompleteGraph /\ Gave("minimum_edge_cut"))
        => 2 * Cardinality(ret.val)
               = number_of_nodes(graph) * (number_of_nodes(graph) - 1)

\* C8, amended: on a complete undirected graph with n >= 1 vertices
\* minimum_edge_cut() returns, without raising, a set of n - 1 edges of the
\* graph.
C8_MinimumEdgeCut ==
    (CompleteGraph /\ number_of_nodes(graph) >= 1
                   /\ ret.op = "minimum_edge_cut")
        => /\ ret.raised = ""
           /\ ret.val \subseteq graph.edges
           /\ Cardinality(ret.val) = number_of_nodes(graph) - 1

\* C8's case: minimum_edge_cut() has answered on a complete graph with at
\* least 3 vertices, where n - 1 and n(n-1)/2 differ.
C8_Witness ==
    /\ CompleteGraph
    /\ number_of_nodes(graph) >= 3
    /\ Gave("minimum_edge_cut")
    /\ Cardinality(ret.val) = number_of_nodes(graph) - 1

\* C9: on a connected undirected graph with at least 2 vertices, removing
\* the set minimum_node_cut() returns leaves a graph that is disconnected or
\* has at most one vertex, and removing any strict subset of it leaves a
\* connected graph.
C9_NodeCutRoundTrip ==
    (ConnectedGraph /\ ret.op = "minimum_node_cut")
        => /\ ret.raised = ""
           /\ ret.val \subseteq NodeSet(graph)
           /\ \/ Cardinality(NodeSet(graph) \ ret.val) <= 1
              \/ ~ConnectedOn(NodeSet(graph) \ ret.val, graph.edges)
           /\ \A D \in SUBSET ret.val :
                 D # ret.val => ConnectedOn(NodeSet(graph) \ D, graph.edges)

\* C9's case: minimum_node_cut() has answered on a connected graph that is
\* not complete, with a cut of at least 2 vertices that disconnects it.
C9_Witness ==
    /\ ConnectedGraph
    /\ ~Complete(graph)
    /\ Gave("minimum_node_cut")
    /\ Cardinality(ret.val) >= 2
    /\ ~ConnectedOn(NodeSet(graph) \ ret.val, graph.edges)

\* The edges whose removal disconnects g.
Bridges(g) == {e \in g.edges : SeparatesEdges(g, {e})}

\* C10: on a connected undirected graph with exactly one bridge,
\* edge_connectivity() returns 1 and minimum_edge_cut() returns the set
\* holding exactly that edge.
C10_Bridge ==
    (ConnectedGraph /\ Cardinality(Bridges(graph)) = 1)
        => /\ ret.op = "edge_connectivity" => ret.raised = "" /\ ret.val = 1
           /\ ret.op = "minimum_edge_cut"
                => ret.raised = "" /\ ret.val = Bridges(graph)

\* The centers of g as a star: every edge joins c to another vertex, and
\* every other vertex is joined to c.
Centers(g) ==
    {c \in NodeSet(g) :
        /\ \A v \in NodeSet(g) \ {c} : Adjacent(g.edges, c, v)
        /\ \A e \in g.edges : e[1] # e[2] /\ (e[1] = c \/ e[2] = c)}

\* The analyzer holds a star with at least 2 leaves.
StarGraph ==
    Undirected /\ number_of_nodes(graph) >= 3 /\ Centers(graph) # {}

\* C11: on a star graph with center c and at least 2 leaves,
\* node_connectivity() and edge_connectivity() return 1 and
\* minimum_node_cut() returns exactly {c}.
C11_Star ==
    StarGraph
        => /\ ret.op \in {"node_connectivity", "edge_connectivity"}
                => ret.raised = "" /\ ret.val = 1
           /\ ret.op = "minimum_node_cut"
                => ret.raised = "" /\ ret.val = Centers(graph)

\* k_connectivity_analysis has returned a report (not the empty dict).
GaveReport == Gave("k_connectivity_analysis") /\ ~IsEmpty(ret.val)

\* C12: in every report k_connectivity_analysis returns, for every k of
\* k_analysis, k_node_connected is (k <= the report's node_connectivity) and
\* k_edge_connected is (k <= the report's edge_connectivity).
C12_Classified ==
    GaveReport
        => \A k \in DOMAIN ret.val.k_analysis :
              /\ ret.val.k_analysis[k].k_node_connected
                    = (k <= ret.val.connectivity.node_connectivity)
              /\ ret.val.k_analysis[k].k_edge_connected
                    = (k <= ret.val.connectivity.edge_connectivity)

\* C12's case: a report whose table has a k the graph is k-connected for
\* (k equal to the reported connectivities) and a k it is not.
C12_Witness ==
    /\ GaveReport
    /\ \E k \in DOMAIN ret.val.k_analysis :
          /\ k = ret.val.connectivity.node_connectivity
          /\ k = ret.val.connectivity.edge_connectivity
          /\ ret.val.k_analysis[k].k_node_connected
    /\ \E k \in DOMAIN ret.val.k_analysis :
          ~ret.val.k_analysis[k].k_edge_connected

\* The max_k of the last call: its argument, or the vertex count by default.
MaxKOf(args) == IF args = <<>> THEN number_of_nodes(graph) ELSE args[1]

\* C13: the table k_analysis of a report returned by
\* k_connectivity_analysis(max_k) has an entry for every k in 1..max_k; with
\* the default max_k, for every k from 1 to the vertex count.
C13_EveryK ==
    GaveReport => \A k \in 1..MaxKOf(ret.args) : k \in DOMAIN ret.val.k_analysis

\* C14: for every max_k, below 1 and above the vertex count included,
\* k_connectivity_analysis(max_k) on a non-empty undirected graph returns a
\* report without raising, and every key k of its k_analysis has
\* 1 <= k <= max_k.
C14_Clamped ==
    (Undirected /\ ~Falsy(graph) /\ ret.op = "k_connectivity_analysis")
        => /\ ret.raised = ""
           /\ ~IsEmpty(ret.val)
           /\ \A k \in DOMAIN ret.val.k_analysis :
                 1 <= k /\ k <= MaxKOf(ret.args)

\* C14's case: a report for a max_k above the vertex count, with a table
\* that is not empty.
C14_Witness ==
    /\ GaveReport
    /\ ret.args # <<>>
    /\ ret.args[1] > number_of_nodes(graph)
    /\ DOMAIN ret.val.k_analysis # {}

\* The analyzer holds a directed graph with at least one vertex.
DirectedGraph == graph # None /\ graph.directed /\ ~Falsy(graph)

\* C15: on a directed graph built by create_graph_from_edges(edges,
\* directed=True), k_connectivity_analysis() returns a report, without
\* raising, whose is_directed is true and whose is_connected is true exactly
\* when the graph is connected with the edge directions ignored.
C15_WeaklyConnected ==
    (DirectedGraph /\ ret.op = "k_connectivity_analysis")
        => /\ ret.raised = ""
           /\ ~IsEmpty(ret.val)
           /\ ret.val.basic_info.is_directed
           /\ ret.val.basic_info.is_connected
                 = ConnectedOn(NodeSet(graph), graph.edges)

\* C16: in every report k_connectivity_analysis returns, every element of
\* minimum_node_cut is a vertex of the graph analyzed and every element of
\* minimum_edge_cut is an edge of it, in one of its two endpoint orders.
C16_CutsInGraph ==
    GaveReport
        => /\ ret.val.cuts.minimum_node_cut \subseteq NodeSet(graph)
           /\ \A e \in ret.val.cuts.minimum_edge_cut :
                 Adjacent(graph.edges, e[1], e[2])

\* C16's case: a report on a connected graph, with a node cut and an edge
\* cut that are not empty.
C16_Witness ==
    /\ GaveReport
    /\ ConnectedGraph
    /\ ret.val.cuts.minimum_node_cut # {}
    /\ ret.val.cuts.minimum_edge_cut # {}
    /\ ret.val.cuts.minimum_node_cut # NodeSet(graph)

\* C17: after create_graph_from_edges(edges, directed) returns True for a
\* list of pairs, the graph has no self-loop, has no edge twice, and holds
\* both endpoints of every edge in its vertex set.
C17_SimpleGraph ==
    (ret.op = "create_graph_from_edges" /\ ret.val)
        => /\ \A e \in graph.edges : e[1] # e[2]
           /\ \A e \in graph.edges :
                 (~graph.directed /\ e[1] # e[2]) => <<e[2], e[1]>> \notin graph.edges
           /\ \A e \in graph.edges : {e[1], e[2]} \subseteq NodeSet(graph)

\* C18: in every report k_connectivity_analysis returns on a connected
\* undirected graph with at least 2 vertices, whatever graph changes and
\* metric calls came before, minimum_node_cut has node_connectivity elements
\* and minimum_edge_cut has edge_connectivity elements.
C18_CutSizes ==
    (ConnectedGraph /\ GaveReport)
        => /\ Cardinality(ret.val.cuts.minimum_node_cut)
                 = ret.val.connectivity.node_connectivity
           /\ Cardinality(ret.val.cuts.minimum_edge_cut)
                 = ret.val.connectivity.edge_connectivity

\* get_summary() or export_results() has produced output.
ProducedOutput ==
    \/ ret.op = "get_summary" /\ ret.raised = ""
    \/ ret.op = "export_results" /\ ret.val.ok

\* The report that output was made from.
UsedReport == IF ret.op = "get_summary" THEN ret.val ELSE ret.val.written

\* What k_connectivity_analysis() gives for the graph held now on an analyzer
\* with nothing memoized and nothing stored.
FreshReport == k_connectivity_analysis(graph, EmptyDict, EmptyDict, <<>>)

\* The report used is the one of the graph held, as far as the fields that
\* never come from the cache tell: basic_info and cuts.
OfGraphHeld(used, fresh) ==
    /\ fresh.raised = ""
    /\ ~IsEmpty(fresh.val)
    /\ used.basic_info = fresh.val.basic_info
    /\ used.cuts = fresh.val.cuts

\* C19: whenever get_summary() or export_results() produces output from a
\* stored report, that report is the report of the graph the analyzer holds
\* now, also when the graph was replaced after the last
\* k_connectivity_analysis call.
C19_ReportCurrent ==
    (ProducedOutput /\ ~IsEmpty(UsedReport))
        => OfGraphHeld(UsedReport, FreshReport.out)

\* The interface has handed (current_graph, current_results) to the
\* visualizer, or has exported current_results.
UsedResults ==
    \/ /\ ret.op \in {"visualize_connectivity", "visualize_k_comparison"}
       /\ ret.val.drawn
    \/ /\ ret.op = "interface.export_results"
       /\ ret.val.ok

\* C20: in the interface, whenever visualize_connectivity or
\* visualize_k_comparison calls the visualizer with (current_graph,
\* current_results), or results are exported, current_results was computed
\* from the graph that is current_graph then.
C20_ResultsOfCurrentGraph ==
    UsedResults => OfGraphHeld(current_results, FreshReport.out)

\* C21: when create_graph_from_edges or load_graph_from_file returns False,
\* the analyzer's graph, analysis_cache and connectivity_results are the same
\* as before the call.
C21_FailureKeepsState ==
    [][(/\ ret'.op \in {"create_graph_from_edges", "load_graph_from_file"}
        /\ ~ret'.val)
          => /\ graph' = graph
             /\ analysis_cache' = analysis_cache
             /\ connectivity_results' = connectivity_results]_vars

\* The computation inside the try of node_connectivity() and
\* edge_connectivity() raises on the graph held.
ComputationRaises == number_of_nodes(graph) > 1 /\ IsConnectedRaises(graph)

\* A call of the metric named key that finds nothing memoized: when the
\* computation raises it returns 0 and memoizes nothing; when it succeeds
\* the cache holds the returned value under key, the rest as before.
Computes(key) ==
    (ret'.op = key /\ ~Falsy(graph) /\ key \notin DOMAIN analysis_cache)
        => /\ ret'.raised = ""
           /\ IF ComputationRaises
              THEN ret'.val = 0 /\ analysis_cache' = analysis_cache
              ELSE analysis_cache' = Put(analysis_cache, key, ret'.val)

\* A call of the metric named key that finds a memoized value returns it and
\* leaves the cache as it is.
ReturnsMemoized(key) ==
    /\ ret'.raised = ""
    /\ ret'.val = analysis_cache[key]
    /\ analysis_cache' = analysis_cache

\* C22 as stated: when the computation raises inside node_connectivity() or
\* edge_connectivity() the call returns 0 and memoizes nothing; when it
\* succeeds analysis_cache holds the returned value under the metric's name,
\* and every later call returns that value without recomputing.
C22_MemoizedForEver ==
    [][\A key \in {"node_connectivity", "edge_connectivity"} :
          /\ Computes(key)
          /\ (ret'.op = key /\ key \in DOMAIN analysis_cache)
                => ReturnsMemoized(key)]_<<ret.op, vars>>

\* What the code does about C22 once the graph has been replaced: as stated
\* while the analyzer holds a graph with at least one vertex; with no graph
\* or an empty graph the call returns 0 and leaves the stale cache as it is.
C22_Memoized ==
    [][\A key \in {"node_connectivity", "edge_connectivity"} :
          /\ Computes(key)
          /\ (ret'.op = key /\ key \in DOMAIN analysis_cache)
                => IF Falsy(graph)
                   THEN /\ ret'.raised = ""
                        /\ ret'.val = 0
                        /\ analysis_cache' = analysis_cache
                   ELSE ReturnsMemoized(key)]_vars

\* C22's case: node_connectivity() has raised inside on a directed graph and
\* returned 0 with nothing memoized for it, while edge_connectivity's value
\* memoized on an earlier graph is still there.
C22_Witness ==
    /\ DirectedGraph
    /\ number_of_nodes(graph) > 1
    /\ Gave("node_connectivity")
    /\ ret.val = 0
    /\ DOMAIN analysis_cache = {"edge_connectivity"}
    /\ analysis_cache["edge_connectivity"] >= 1

\* The menu choices that may invoke the analyzer's analysis or export.
MenuOps ==
    {"analyze_connectivity", "visualize_connectivity",
     "visualize_k_comparison", "interface.export_results"}

\* The menu choice just made has invoked the analyzer's method named name.
Invokes(name) ==
    /\ ret'.op \in MenuOps
    /\ \E i \in 1..Len(ret'.val.calls) : ret'.val.calls[i] = name

\* C23: for any sequence of menu choices, the analyzer's
\* k_connectivity_analysis is never invoked while no non-empty graph is
\* loaded, the analyzer's export_results is never invoked before an analysis
\* has produced a non-empty result, and a connectivity visualization chosen
\* with no result available runs the analysis first and draws only if it
\* succeeded.
C23_MenuOrdering ==
    [][/\ Invokes("k_connectivity_analysis") => ~Falsy(current_graph)
       /\ Invokes("export_results") => current_results # None
       /\ (/\ ret'.op \in {"visualize_connectivity", "visualize_k_comparison"}
           /\ current_results = None)
             => /\ ~Falsy(current_graph) => Invokes("k_connectivity_analysis")
                /\ ret'.val.drawn
                      => /\ Invokes("k_connectivity_analysis")
                         /\ ~IsEmpty(connectivity_results')
                         /\ ret'.val.results = connectivity_results'
      ]_<<ret.op, vars>>

\* C23's case: a connectivity visualization chosen with no result available
\* has run the analysis and drawn its report.
C23_Witness ==
    /\ ret.op = "visualize_connectivity"
    /\ ret.val.drawn
    /\ ret.val.calls # <<>>
    /\ ret.val.calls[1] = "k_connectivity_analysis"
    /\ ConnectedGraph

=============================================================================
